---- MODULE Spec2Model ----
(***************************************************************************)
(* script-examples/plot_cache_percentiles.py: a report is read, scanned    *)
(* with one regular expression for "Cache Size: N KB" blocks, each block's *)
(* brace-delimited record is decoded as JSON, the rows are sorted by size  *)
(* and handed to matplotlib.                                               *)
(*                                                                         *)
(* A text is a sequence of one-character strings.  A float is a fixed-     *)
(* point integer with FracDigits decimal digits (5.0 is 5 * Scale).        *)
(***************************************************************************)
EXTENDS Integers, Sequences, FiniteSets, TLC

\* ------------------------------------------------------------------ bounds
\* Largest number of segments (blocks, stray lines) in a generated report.
MaxBlocks == 2
\* Decimal digits kept after the point by the fixed-point model of a float.
FracDigits == 1

RECURSIVE Pow10(_)
Pow10(k) == IF k = 0 THEN 1 ELSE 10 * Pow10(k - 1)

Scale == Pow10(FracDigits)

\* --------------------------------------------------------- character classes
Digits == <<"0", "1", "2", "3", "4", "5", "6", "7", "8", "9">>

UpperCase == <<"A", "B", "C", "D", "E", "F", "G", "H", "I", "J", "K", "L", "M",
               "N", "O", "P", "Q", "R", "S", "T", "U", "V", "W", "X", "Y", "Z">>

LowerCase == <<"a", "b", "c", "d", "e", "f", "g", "h", "i", "j", "k", "l", "m",
               "n", "o", "p", "q", "r", "s", "t", "u", "v", "w", "x", "y", "z">>

\* \s of the pattern (the whitespace the generated reports use).
IsSpace(c) == c \in {" ", "\n", "\t"}

\* \d of the pattern.
IsDigit(c) == c \in {"0", "1", "2", "3", "4", "5", "6", "7", "8", "9"}

DigitVal(c) == (CHOOSE k \in 1..10 : Digits[k] = c) - 1

\* re.IGNORECASE: a letter of the pattern matches either case of itself.
FoldExact(c) == c

ToLower == [c \in {UpperCase[k] : k \in 1..26} |->
               LowerCase[CHOOSE k \in 1..26 : UpperCase[k] = c]]

Fold(c) == IF c \in DOMAIN ToLower THEN ToLower[c] ELSE c

\* The literal keywords of the pattern.
KwCacheSize == <<"C", "a", "c", "h", "e", " ", "S", "i", "z", "e", ":">>
KwKB == <<"K", "B">>

\* A literal of the pattern at position i of t.
LitAt(t, i, lit) ==
    /\ i + Len(lit) - 1 <= Len(t)
    /\ \A k \in 1..Len(lit) : Fold(t[i + k - 1]) = Fold(lit[k])

\* The least element of a set of positions, 0 for the empty set.
Least(S) == IF S = {} THEN 0 ELSE CHOOSE x \in S : \A y \in S : x <= y

\* Greedy \s* from i: the first position at or after i that holds no space.
RECURSIVE SkipWs(_, _)
SkipWs(t, i) ==
    IF i <= Len(t) /\ IsSpace(t[i]) THEN SkipWs(t, i + 1) ELSE i

\* Greedy \d* from i.
RECURSIVE SkipDigits(_, _)
SkipDigits(t, i) ==
    IF i <= Len(t) /\ IsDigit(t[i]) THEN SkipDigits(t, i + 1) ELSE i

\* Lazy .*?\} from i: the first "}" at or after i, 0 when there is none.
FirstClose(t, i) == Least({j \in i..Len(t) : t[j] = "}"})

\* ------------------------------------------------------------ the pattern
\* r"Cache Size:\s*(\d+)\s*KB\s*.*?\n\s*(\{.*?\})", re.DOTALL | re.IGNORECASE

\* A match: start and end are its first and last position, size is group 1,
\* rec is group 2 and at the position where group 2 starts.
NoMatch == [ok |-> FALSE, start |-> 0, size |-> <<>>, at |-> 0, rec |-> <<>>, end |-> 0]

\* \n\s*(\{.*?\}) tried at f: the position of the closing brace, 0 when it
\* does not match there.  The greedy \s* can only stop at the end of the
\* run of spaces (a shorter run leaves a space where "{" is required), and
\* the lazy .*? stops at the first "}" (DOTALL: it crosses line ends).
BraceAt(t, f) ==
    IF f > Len(t) \/ t[f] # "\n" THEN 0
    ELSE LET h == SkipWs(t, f + 1)
         IN  IF h > Len(t) \/ t[h] # "{" THEN 0 ELSE FirstClose(t, h + 1)

\* The lazy .*? before \n, entered at f: it grows one character at a time
\* until the rest of the pattern matches; 0 when it never does.
LazyDot(t, f) == Least({g \in f..Len(t) : BraceAt(t, g) # 0})

\* The greedy \s* after KB, which took the spaces c..e-1: the rest of the
\* pattern is tried from e, and only when it fails everywhere does \s* give
\* one space back.  The position of the \n that is matched, 0 for none.
RECURSIVE AfterKB(_, _, _)
AfterKB(t, c, e) ==
    IF e < c THEN 0
    ELSE IF LazyDot(t, e) # 0 THEN LazyDot(t, e)
    ELSE AfterKB(t, c, e - 1)

\* pattern.match at s.  Up to KB no backtracking can succeed: a shorter \s*
\* or \d+ leaves a space or a digit where a digit or a letter is required.
MatchAt(t, s) ==
    IF ~LitAt(t, s, KwCacheSize) THEN NoMatch
    ELSE LET a == SkipWs(t, s + Len(KwCacheSize))
             d == SkipDigits(t, a)
             b == SkipWs(t, d)
         IN  IF d = a \/ ~LitAt(t, b, KwKB) THEN NoMatch
             ELSE LET c == b + Len(KwKB)
                      f == AfterKB(t, c, SkipWs(t, c))
                  IN  IF f = 0 THEN NoMatch
                      ELSE LET h == SkipWs(t, f + 1)
                               z == FirstClose(t, h + 1)
                           IN  [ok |-> TRUE, start |-> s,
                                size |-> SubSeq(t, a, d - 1), at |-> h,
                                rec |-> SubSeq(t, h, z), end |-> z]

\* One step of pattern.finditer: the leftmost match starting at or after pos.
Search(t, pos) ==
    LET s == Least({p \in pos..Len(t) : MatchAt(t, p).ok})
    IN  IF s = 0 THEN NoMatch ELSE MatchAt(t, s)

\* ---------------------------------------------------------------- numbers
\* int(m.group(1)): a run of digits as a number (Python integers are
\* unbounded, so there is no width to keep).
RECURSIVE IntOf(_)
IntOf(ds) ==
    IF ds = <<>> THEN 0
    ELSE 10 * IntOf(SubSeq(ds, 1, Len(ds) - 1)) + DigitVal(ds[Len(ds)])

\* The digits after the point as a fixed-point fraction: the first
\* FracDigits digits count, padded with zeros.
RECURSIVE FracOf(_, _)
FracOf(ds, k) ==
    IF k = 0 THEN 0
    ELSE (IF ds = <<>> THEN 0 ELSE DigitVal(ds[1]) * Pow10(k - 1))
         + FracOf(IF ds = <<>> THEN <<>> ELSE Tail(ds), k - 1)

\* ------------------------------------------------------------- json.loads
\* A decoded value: t is its type ("num", "str", "obj", "null"), n the number
\* (fixed point), s the string, o the object's pairs <<key, value>> in the
\* order they were read.
JNum(n) == [t |-> "num", n |-> n, s |-> <<>>, o |-> <<>>]
JStr(s) == [t |-> "str", n |-> 0, s |-> s, o |-> <<>>]
JObj(o) == [t |-> "obj", n |-> 0, s |-> <<>>, o |-> o]
JNull == [t |-> "null", n |-> 0, s |-> <<>>, o |-> <<>>]

\* The outcome of scanning one value: i is the position after it.
JFail == [ok |-> FALSE, v |-> JNull, i |-> 0]
JOk(v, i) == [ok |-> TRUE, v |-> v, i |-> i]

\* The closing quote of a string whose text starts at i, 0 when the string
\* is not terminated.
RECURSIVE CloseQuote(_, _)
CloseQuote(s, i) ==
    IF i > Len(s) THEN 0
    ELSE IF s[i] = "\"" THEN i
    ELSE CloseQuote(s, i + 1)

\* A string, s[i] being its opening quote.
ScanString(s, i) ==
    LET q == CloseQuote(s, i + 1)
    IN  IF q = 0 THEN JFail ELSE JOk(JStr(SubSeq(s, i + 1, q - 1)), q + 1)

\* A number: -? (0 | [1-9][0-9]*) (\. [0-9]+)?
ScanNumber(s, i) ==
    LET neg == i <= Len(s) /\ s[i] = "-"
        a == IF neg THEN i + 1 ELSE i
        d == IF a <= Len(s) /\ s[a] = "0" THEN a + 1 ELSE SkipDigits(s, a)
        dot == d <= Len(s) /\ s[d] = "."
        e == IF dot THEN SkipDigits(s, d + 1) ELSE d
        whole == IntOf(SubSeq(s, a, d - 1))
        frac == IF dot THEN FracOf(SubSeq(s, d + 1, e - 1), FracDigits) ELSE 0
        mag == whole * Scale + frac
    IN  IF d = a THEN JFail
        ELSE IF dot /\ e = d + 1 THEN JOk(JNum(IF neg THEN -whole * Scale ELSE whole * Scale), d)
        ELSE JOk(JNum(IF neg THEN -mag ELSE mag), e)

KwNull == <<"n", "u", "l", "l">>

RECURSIVE ScanValue(_, _), ScanMembers(_, _, _)

\* The members of an object from position i, which follows "{" or ",":
\* "key" : value, then "," and more members, or "}".
ScanMembers(s, i, acc) ==
    LET k == SkipWs(s, i)
    IN  IF k > Len(s) \/ s[k] # "\"" THEN JFail
        ELSE LET key == ScanString(s, k)
                 c == IF key.ok THEN SkipWs(s, key.i) ELSE 0
             IN  IF ~key.ok \/ c > Len(s) \/ s[c] # ":" THEN JFail
                 ELSE LET val == ScanValue(s, SkipWs(s, c + 1))
                          e == IF val.ok THEN SkipWs(s, val.i) ELSE 0
                          got == Append(acc, <<key.v.s, val.v>>)
                      IN  IF ~val.ok \/ e > Len(s) THEN JFail
                          ELSE IF s[e] = "," THEN ScanMembers(s, e + 1, got)
                          ELSE IF s[e] = "}" THEN JOk(JObj(got), e + 1)
                          ELSE JFail

ScanValue(s, i) ==
    IF i > Len(s) THEN JFail
    ELSE IF s[i] = "{" THEN
        (IF SkipWs(s, i + 1) <= Len(s) /\ s[SkipWs(s, i + 1)] = "}"
         THEN JOk(JObj(<<>>), SkipWs(s, i + 1) + 1)
         ELSE ScanMembers(s, i + 1, <<>>))
    ELSE IF s[i] = "\"" THEN ScanString(s, i)
    ELSE IF s[i] = "-" \/ IsDigit(s[i]) THEN ScanNumber(s, i)
    ELSE IF i + 3 <= Len(s) /\ SubSeq(s, i, i + 3) = KwNull THEN JOk(JNull, i + 4)
    ELSE JFail

\* json.loads(s): one value between optional spaces and nothing after it;
\* anything else is a JSONDecodeError (ok is FALSE).
Loads(s) ==
    LET r == ScanValue(s, SkipWs(s, 1))
    IN  IF r.ok /\ SkipWs(s, r.i) = Len(s) + 1 THEN r ELSE JFail

\* ------------------------------------------------- stats[...] and float(...)
KeyMedian == <<"m", "e", "d", "i", "a", "n">>
KeyP90 == <<"p", "9", "0">>
KeyP95 == <<"p", "9", "5">>
KeyP99 == <<"p", "9", "9">>

\* The four subscripts of the loop body, in the order they are evaluated.
Fields == <<KeyMedian, KeyP90, KeyP95, KeyP99>>

HasKey(o, key) == \E k \in 1..Len(o) : o[k][1] = key

\* dict lookup: of two pairs with one key the decoder keeps the later.
GetItem(o, key) ==
    o[CHOOSE k \in 1..Len(o) :
          /\ o[k][1] = key
          /\ \A j \in (k + 1)..Len(o) : o[j][1] # key][2]

\* Leading and trailing spaces removed, as float() does with a string.
RECURSIVE RStrip(_)
RStrip(s) ==
    IF s # <<>> /\ IsSpace(s[Len(s)]) THEN RStrip(SubSeq(s, 1, Len(s) - 1)) ELSE s

Strip(s) == RStrip(SubSeq(s, SkipWs(s, 1), Len(s)))

\* float(str): an optional sign, digits, an optional point and digits.
FloatOfStr(s) ==
    LET u == Strip(s)
        sgn == u # <<>> /\ u[1] \in {"+", "-"}
        a == IF sgn THEN 2 ELSE 1
        d == SkipDigits(u, a)
        dot == d <= Len(u) /\ u[d] = "."
        e == IF dot THEN SkipDigits(u, d + 1) ELSE d
        mag == IntOf(SubSeq(u, a, d - 1)) * Scale
               + (IF dot THEN FracOf(SubSeq(u, d + 1, e - 1), FracDigits) ELSE 0)
    IN  IF e # Len(u) + 1 \/ (d = a /\ e <= d + 1)
        THEN [err |-> "ValueError", n |-> 0]
        ELSE [err |-> "", n |-> IF sgn /\ u[1] = "-" THEN -mag ELSE mag]

\* float(v) of a decoded value: a number is itself, a string is parsed, an
\* object or null is a TypeError.
Float(v) ==
    IF v.t = "num" THEN [err |-> "", n |-> v.n]
    ELSE IF v.t = "str" THEN FloatOfStr(v.s)
    ELSE [err |-> "TypeError", n |-> 0]

\* float(stats[key])
FieldOrZero(o, key) ==
    IF ~HasKey(o, key) THEN [err |-> "", n |-> 0]
    ELSE Float(GetItem(o, key))

Field(o, key) ==
    IF ~HasKey(o, key) THEN [err |-> "KeyError", n |-> 0]
    ELSE Float(GetItem(o, key))

\* The loop body for one match: the row that is appended, or the exception
\* that leaves the loop (err is "" when there is none).  The subscripts are
\* evaluated left to right, so the first that fails decides the exception.
RowOf(m) ==
    LET stats == Loads(m.rec)
        bad == {k \in 1..Len(Fields) : Field(stats.v.o, Fields[k]).err # ""}
        first == CHOOSE k \in bad : \A j \in bad : k <= j
    IN  IF ~stats.ok THEN [err |-> "JSONDecodeError", row |-> <<>>]
        ELSE IF bad # {} THEN [err |-> Field(stats.v.o, Fields[first]).err, row |-> <<>>]
        ELSE [err |-> "",
              row |-> <<IntOf(m.size)>>
                      \o [k \in 1..Len(Fields) |-> Field(stats.v.o, Fields[k]).n]]

\* ------------------------------------------------------------- rows.sort
\* key=lambda x: x[0], and the comparison list.sort makes of two keys.
TupleLeq(a, b) ==
    \/ a = b
    \/ \E k \in 1..Len(a) :
          /\ a[k] < b[k]
          /\ \A j \in 1..(k - 1) : a[j] = b[j]

KeyLeq(a, b) == a[1] <= b[1]

\* One step of the binary insertion sort list.sort runs on a short list:
\* r goes after the last element that does not compare greater than it.
Insort(sorted, r) ==
    LET k == Cardinality({i \in 1..Len(sorted) : KeyLeq(sorted[i], r)})
    IN  SubSeq(sorted, 1, k) \o <<r>> \o SubSeq(sorted, k + 1, Len(sorted))

RECURSIVE Sorted(_)
Sorted(rs) ==
    IF rs = <<>> THEN <<>>
    ELSE Insort(Sorted(SubSeq(rs, 1, Len(rs) - 1)), rs[Len(rs)])

\* ------------------------------------------------------------ the labels
\* str(n) for n >= 0.
RECURSIVE IntDigits(_)
IntDigits(n) ==
    IF n < 10 THEN <<Digits[n + 1]>>
    ELSE IntDigits(n \div 10) \o <<Digits[(n % 10) + 1]>>

\* f"{r[0]} KB"
Label(r) == IntDigits(r[1]) \o <<" ", "K", "B">>

\* -------------------------------------------------------------- the report
\* The reports that are read: each is a sequence of segments, and a segment
\* is a block in the layout of the docstring or a variation of it.
\*   std     marker line, rule line, record
\*   lower   the same with the keywords in lower case
\*   tight   marker line, record on the next line (no rule line)
\*   blank   marker line, empty line, record
\*   bare    marker line alone
\*   inline  marker and record on one line
\*   extra   std, the record holding a fifth field (a string with a "{")
\*   nested  std, the record holding a fifth field that is an object
\*   missing std, the record without "p95"
\*   capkey  std, "Median" for "median"
\*   nonnum  std, "median" holding a string that is no number
\*   badjson std, a comma before the closing brace
\*   noise   a line that is no part of a block
BlockShapes == {"std", "lower", "tight", "blank", "extra"}
OddShapes == {"bare", "inline", "nested", "missing", "capkey", "nonnum",
              "badjson", "noise"}

Sizes == {8, 16}

\* median, p90, p95, p99 of a block, by the number of the value set.
ValSets == << <<5 * Scale, 8 * Scale, 9 * Scale, 12 * Scale>>,
              <<10 * Scale, 20 * Scale, 25 * Scale, 30 * Scale>> >>

Segments ==
    [shape : {"std"}, size : Sizes, vals : 1..Len(ValSets)]
    \cup [shape : {"lower", "extra"}, size : {16}, vals : {2}]
    \cup [shape : {"tight", "blank"}, size : {8}, vals : {1}]
    \cup [shape : OddShapes, size : {8}, vals : {1}]

RECURSIVE SeqsUpTo(_, _)
SeqsUpTo(S, n) ==
    IF n = 0 THEN {<<>>}
    ELSE SeqsUpTo(S, n - 1)
         \cup {Append(q, x) : q \in {r \in SeqsUpTo(S, n - 1) : Len(r) = n - 1}, x \in S}

Reports == SeqsUpTo(Segments, MaxBlocks)

\* repr of a float: the whole part, a point, the fraction.
RECURSIVE FracDigitsOf(_, _)
FracDigitsOf(f, k) ==
    IF k = 0 THEN <<>>
    ELSE <<Digits[(f \div Pow10(k - 1)) + 1]>> \o FracDigitsOf(f % Pow10(k - 1), k - 1)

FormatFloat(v) ==
    IntDigits(v \div Scale) \o <<".">> \o FracDigitsOf(v % Scale, FracDigits)

Quoted(w) == <<"\"">> \o w \o <<"\"">>

\* "key": value, ... for the pairs ps.
RECURSIVE Members(_)
Members(ps) ==
    IF ps = <<>> THEN <<>>
    ELSE Quoted(ps[1][1]) \o <<":", " ">> \o ps[1][2]
         \o (IF Len(ps) = 1 THEN <<>> ELSE <<",", " ">> \o Members(Tail(ps)))

KeyUnit == <<"u", "n", "i", "t">>
KeyExtra == <<"e", "x", "t", "r", "a">>
KeyMax == <<"m", "a", "x">>
KeyCapMedian == <<"M", "e", "d", "i", "a", "n">>
TextOpenNs == <<"{", "n", "s">>
TextFast == <<"f", "a", "s", "t">>

\* The four fields of a record with the values vs.
FourPairs(vs) == [k \in 1..Len(Fields) |-> <<Fields[k], FormatFloat(vs[k])>>]

\* The record of a segment, braces included.
RecordText(g) ==
    LET vs == ValSets[g.vals]
        four == FourPairs(vs)
        body ==
            CASE g.shape = "extra" ->
                    Members(<<<<KeyUnit, Quoted(TextOpenNs)>>>> \o four)
              [] g.shape = "nested" ->
                    Members(four \o <<<<KeyExtra, <<"{">> \o Members(<<<<KeyMax, <<"1">>>>>>) \o <<"}">>>>>>)
              [] g.shape = "missing" ->
                    Members(<<four[1], four[2], four[4]>>)
              [] g.shape = "capkey" ->
                    Members(<<<<KeyCapMedian, four[1][2]>>, four[2], four[3], four[4]>>)
              [] g.shape = "nonnum" ->
                    Members(<<<<KeyMedian, Quoted(TextFast)>>, four[2], four[3], four[4]>>)
              [] g.shape = "badjson" ->
                    Members(four) \o <<",">>
              [] OTHER -> Members(four)
    IN  <<"{">> \o body \o <<"}">>

KwLowerCacheSize == <<"c", "a", "c", "h", "e", " ", "s", "i", "z", "e", ":">>
KwLowerKB == <<"k", "b">>
RuleLine == <<"-", "-", "-", "-", "\n">>
NoiseLine == <<"#", " ", "r", "u", "n", " ", "1", "\n">>

\* "Cache Size: N KB" of a segment.
MarkerText(g) ==
    IF g.shape = "lower"
    THEN KwLowerCacheSize \o <<" ">> \o IntDigits(g.size) \o <<" ">> \o KwLowerKB
    ELSE KwCacheSize \o <<" ">> \o IntDigits(g.size) \o <<" ">> \o KwKB

SegmentText(g) ==
    CASE g.shape = "noise" -> NoiseLine
      [] g.shape = "bare" -> MarkerText(g) \o <<"\n">>
      [] g.shape = "inline" -> MarkerText(g) \o <<" ">> \o RecordText(g) \o <<"\n">>
      [] g.shape = "tight" -> MarkerText(g) \o <<"\n">> \o RecordText(g) \o <<"\n">>
      [] g.shape = "blank" -> MarkerText(g) \o <<"\n", "\n">> \o RecordText(g) \o <<"\n">>
      [] OTHER -> MarkerText(g) \o <<"\n">> \o RuleLine \o RecordText(g) \o <<"\n">>

RECURSIVE ReportText(_)
ReportText(r) ==
    IF r = <<>> THEN <<>> ELSE SegmentText(r[1]) \o ReportText(Tail(r))

\* ------------------------------------------------------------------ state
VARIABLES
    report,   \* the segments the report file was written from
    exists,   \* whether the file at src can be read
    pc,       \* where the run is
    text,     \* parse_final_output: text
    pos,      \* finditer: where the next search starts
    seen,     \* the matches the loop has taken so far, in order
    rows,     \* parse_final_output: rows
    result,   \* what parse_final_output returned: labels, p50, p90, p95, p99
    calls,    \* the pyplot calls made so far, in order
    err       \* the exception that ended the run, "" for none

vars == <<report, exists, pc, text, pos, seen, rows, result, calls, err>>

NoResult == [labels |-> <<>>, p50 |-> <<>>, p90 |-> <<>>, p95 |-> <<>>, p99 |-> <<>>]

Init ==
    /\ report \in Reports
    /\ exists \in BOOLEAN
    /\ ~exists => report = <<>>
    /\ pc = "read"
    /\ text = <<>>
    /\ pos = 1
    /\ seen = <<>>
    /\ rows = <<>>
    /\ result = NoResult
    /\ calls = <<>>
    /\ err = ""

\* An uncaught exception: nothing in the script catches any.
RaiseAndGoOn(e) ==
    /\ err' = e
    /\ pc' = "figure"

Raise(e) ==
    /\ err' = e
    /\ pc' = "failed"

\* path.read_text(encoding="utf-8", errors="replace")
ReadText ==
    /\ pc = "read"
    /\ exists
    /\ text' = ReportText(report)
    /\ pc' = "scan"
    /\ UNCHANGED <<report, exists, pos, seen, rows, result, calls, err>>

ReadFails ==
    /\ pc = "read"
    /\ ~exists
    /\ Raise("FileNotFoundError")
    /\ UNCHANGED <<report, exists, text, pos, seen, rows, result, calls>>

\* for m in pattern.finditer(text): a match whose record decodes; its row is
\* appended and the search goes on after the match.
ForRow ==
    /\ pc = "scan"
    /\ LET m == Search(text, pos)
       IN  /\ m.ok
           /\ RowOf(m).err = ""
           /\ rows' = Append(rows, RowOf(m).row)
           /\ seen' = Append(seen, m)
           /\ pos' = m.end + 1
    /\ UNCHANGED <<report, exists, pc, text, result, calls, err>>

\* The loop body raises: json.loads, a subscript or float() failed.
ForRaise ==
    /\ pc = "scan"
    /\ LET m == Search(text, pos)
       IN  /\ m.ok
           /\ RowOf(m).err # ""
           /\ seen' = Append(seen, m)
           /\ Raise(RowOf(m).err)
    /\ UNCHANGED <<report, exists, text, pos, rows, result, calls>>

\* finditer is exhausted.
ForEnd ==
    /\ pc = "scan"
    /\ ~Search(text, pos).ok
    /\ pc' = "check"
    /\ UNCHANGED <<report, exists, text, pos, seen, rows, result, calls, err>>

\* if not rows:
NotRowsNever(rs) == FALSE

NotRows(rs) == rs = <<>>

RaiseNoData ==
    /\ pc = "check"
    /\ NotRows(rows)
    /\ Raise("RuntimeError")
    /\ UNCHANGED <<report, exists, text, pos, seen, rows, result, calls>>

\* rows.sort(key=lambda x: x[0])
SortRows ==
    /\ pc = "check"
    /\ ~NotRows(rows)
    /\ rows' = Sorted(rows)
    /\ pc' = "build"
    /\ UNCHANGED <<report, exists, text, pos, seen, result, calls, err>>

\* The five lists that are returned, built from rs.
ColumnsSwapped(rs) ==
    [labels |-> [i \in 1..Len(rs) |-> Label(rs[i])],
     p50 |-> [i \in 1..Len(rs) |-> rs[i][2]],
     p90 |-> [i \in 1..Len(rs) |-> rs[i][4]],
     p95 |-> [i \in 1..Len(rs) |-> rs[i][3]],
     p99 |-> [i \in 1..Len(rs) |-> rs[i][5]]]

Columns(rs) ==
    [labels |-> [i \in 1..Len(rs) |-> Label(rs[i])],
     p50 |-> [i \in 1..Len(rs) |-> rs[i][2]],
     p90 |-> [i \in 1..Len(rs) |-> rs[i][3]],
     p95 |-> [i \in 1..Len(rs) |-> rs[i][4]],
     p99 |-> [i \in 1..Len(rs) |-> rs[i][5]]]

\* labels, p50, p90, p95, p99 = parse_final_output(src)
Return ==
    /\ pc = "build"
    /\ result' = Columns(rows)
    /\ pc' = "figure"
    /\ UNCHANGED <<report, exists, text, pos, seen, rows, calls, err>>

Call(fn, x, y, label) == [fn |-> fn, x |-> x, y |-> y, label |-> label]

\* plt.figure()
Figure ==
    /\ pc = "figure"
    /\ calls' = Append(calls, Call("figure", <<>>, <<>>, ""))
    /\ pc' = "plot"
    /\ UNCHANGED <<report, exists, text, pos, seen, rows, result, err>>

\* plt.figure() with no usable backend: the error is not caught.
FigureFails ==
    /\ pc = "figure"
    /\ Raise("RenderError")
    /\ UNCHANGED <<report, exists, text, pos, seen, rows, result, calls>>

\* The four plt.plot calls, in the order of the script.
Series == <<"P50", "P90", "P95", "P99">>

SeriesData(res, k) ==
    CASE k = 1 -> res.p50 [] k = 2 -> res.p90 [] k = 3 -> res.p95 [] OTHER -> res.p99

Plot ==
    /\ pc = "plot"
    /\ LET k == Len(calls)
       IN  /\ calls' = Append(calls, Call("plot", result.labels, SeriesData(result, k), Series[k]))
           /\ pc' = IF k = Len(Series) THEN "decorate" ELSE "plot"
    /\ UNCHANGED <<report, exists, text, pos, seen, rows, result, err>>

\* xlabel, ylabel, title, xticks, grid, legend, tight_layout
Decorate ==
    /\ pc = "decorate"
    /\ calls' = Append(calls, Call("decorate", <<>>, <<>>, ""))
    /\ pc' = "show"
    /\ UNCHANGED <<report, exists, text, pos, seen, rows, result, err>>

\* plt.show(): returns when the viewer is closed.
Show ==
    /\ pc = "show"
    /\ calls' = Append(calls, Call("show", <<>>, <<>>, ""))
    /\ pc' = "shown"
    /\ UNCHANGED <<report, exists, text, pos, seen, rows, result, err>>

\* The viewer is closed: main returns and the process exits.
Close ==
    /\ pc = "shown"
    /\ pc' = "done"
    /\ UNCHANGED <<report, exists, text, pos, seen, rows, result, calls, err>>

Next ==
    \/ ReadText
    \/ ReadFails
    \/ ForRow
    \/ ForRaise
    \/ ForEnd
    \/ RaiseNoData
    \/ SortRows
    \/ Return
    \/ Figure
    \/ FigureFails
    \/ Plot
    \/ Decorate
    \/ Show
    \/ Close

Spec == Init /\ [][Next]_vars

\* ============================================================ properties
\* What a segment that is a block stands for: its size and its four values.
ExpectedTuple(g) == <<g.size>> \o ValSets[g.vals]

\* The segments of r that are blocks, in the order of the text.
BlocksOf(r) == SelectSeq(r, LAMBDA g : g.shape \in BlockShapes)

\* The tuples of the blocks of r, in the order of the text.
ExpectedRows(r) == [i \in 1..Len(BlocksOf(r)) |-> ExpectedTuple(BlocksOf(r)[i])]

ShapesIn(r, S) == \A i \in 1..Len(r) : r[i].shape \in S

Range(q) == {q[i] : i \in 1..Len(q)}

Count(q, x) == Cardinality({i \in 1..Len(q) : q[i] = x})

\* a and b hold the same tuples, each as often.
SameBag(a, b) ==
    /\ Len(a) = Len(b)
    /\ \A x \in Range(a) \cup Range(b) : Count(a, x) = Count(b, x)

AscendingBySize(q) == \A i \in 1..(Len(q) - 1) : q[i][1] <= q[i + 1][1]

StrictlyAscendingBySize(q) == \A i \in 1..(Len(q) - 1) : q[i][1] < q[i + 1][1]

OfSize(q, n) == SelectSeq(q, LAMBDA r : r[1] = n)

\* b is a sorted by size, rows of one size keeping the order they have in a.
StableSortOf(a, b) ==
    /\ Len(a) = Len(b)
    /\ AscendingBySize(b)
    /\ \A r \in Range(a) \cup Range(b) : OfSize(b, r[1]) = OfSize(a, r[1])

\* parse_final_output has returned to main.
Parsed == pc \in {"figure", "plot", "decorate", "show", "shown", "done"}
          \/ (pc = "failed" /\ err = "RenderError")

\* The exceptions of a record that cannot be used.
MalformedErrors == {"JSONDecodeError", "KeyError", "ValueError", "TypeError"}

ColumnLengths(res) == {Len(res.labels), Len(res.p50), Len(res.p90), Len(res.p95), Len(res.p99)}

\* C1: a report of k >= 1 valid blocks (marker followed by a record of the
\* four fields) with pairwise distinct sizes, and otherwise only lines that
\* belong to no block, is parsed without error into exactly k entries per
\* returned list, strictly ascending by size.
C1_ExactlyKSorted ==
    LET k == Len(BlocksOf(report))
    IN  (/\ exists
         /\ ShapesIn(report, BlockShapes \cup {"noise"})
         /\ k >= 1
         /\ \A i, j \in 1..k : i # j => BlocksOf(report)[i].size # BlocksOf(report)[j].size)
        => /\ pc = "failed" => err = "RenderError"
           /\ Parsed => /\ ColumnLengths(result) = {k}
                        /\ StrictlyAscendingBySize(rows)

\* C2: when the pattern matches nowhere in the text the run ends in the
\* no-data RuntimeError with nothing returned, and every pyplot call is
\* made with a non-empty result: a plot call never has an empty x or y.
C2_NoDataNeverPlotted ==
    /\ (pc \notin {"read", "scan", "check"} /\ exists /\ ~Search(text, 1).ok)
       => (pc = "failed" /\ err = "RuntimeError" /\ result = NoResult /\ calls = <<>>)
    /\ calls # <<>> => (rows # <<>> /\ result.labels # <<>>)
    /\ \A i \in 1..Len(calls) :
          calls[i].fn = "plot" => (calls[i].x # <<>> /\ Len(calls[i].y) = Len(calls[i].x))

C2_Witness ==
    /\ pc = "failed"
    /\ err = "RuntimeError"
    /\ text # <<>>
    /\ \E i \in 1..Len(report) : report[i].shape = "bare"

\* The records that are malformed by construction: not well-formed JSON, a
\* required field absent (or spelt in another case), a value that is no number.
MalformedRecords ==
    {RecordText(g) : g \in {x \in Segments : x.shape \in {"badjson", "missing", "capkey", "nonnum"}}}

\* C3: once the loop has taken a match whose record is malformed the run
\* has failed with a malformed-record error at that very match: the match
\* is the last one taken, nothing is returned and nothing is plotted,
\* however many valid blocks were read before it.
C3_MalformedRecordFails ==
    \A i \in 1..Len(seen) :
        seen[i].rec \in MalformedRecords
        => /\ pc = "failed"
           /\ err \in MalformedErrors
           /\ i = Len(seen)
           /\ Len(rows) = Len(seen) - 1
           /\ result = NoResult
           /\ calls = <<>>

C3_Witness ==
    /\ pc = "failed"
    /\ err = "KeyError"
    /\ Len(rows) = 1
    /\ Len(seen) = 2
    /\ seen[2].rec \in MalformedRecords
    /\ report[2].shape = "missing"

\* C4: the sort step leaves the rows ascending by size, and rows of one
\* size in the order in which their blocks were matched; the four values
\* of a row play no part in the order.  For a report of blocks with a rule
\* line that order is the order of the blocks in the text.
C4_StableSort ==
    /\ [][(pc = "check" /\ pc' = "build") => StableSortOf(rows, rows')]_vars
    /\ []((pc = "build" /\ ShapesIn(report, {"std", "lower", "extra", "noise"}))
          => StableSortOf(ExpectedRows(report), rows))

C4_Witness ==
    /\ pc = "build"
    /\ Len(rows) = 2
    /\ rows[1][1] = rows[2][1]
    /\ rows[1][2] > rows[2][2]

\* C5: a report written from a non-empty list of tuples, each as a block of
\* the grammar (marker line, separator content, record) and in any order,
\* is parsed without error into exactly those tuples, ascending by size.
C5_RoundTrip ==
    (exists /\ report # <<>> /\ ShapesIn(report, {"std", "tight", "blank"}))
    => /\ pc = "failed" => err = "RenderError"
       /\ Parsed => /\ SameBag(rows, ExpectedRows(report))
                    /\ AscendingBySize(rows)

\* C6: a record that holds the four fields and more (a string with a brace
\* in it, a nested object) gives the tuple of the four fields alone.
C6_ExtraFieldsIgnored ==
    (exists /\ report # <<>> /\ ShapesIn(report, {"std", "extra", "nested"}))
    => /\ pc = "failed" => err = "RenderError"
       /\ pc = "check" =>
             rows = [i \in 1..Len(report) |-> <<report[i].size>> \o ValSets[report[i].vals]]

\* C7: a marker in lower case is matched as the marker in the case of the
\* docstring is and gives the tuple of its block, while a record with
\* "Median" for "median" is a missing field: the run fails with KeyError.
C7_KeywordCaseOnly ==
    /\ (exists /\ ShapesIn(report, {"std", "lower"}))
       => /\ pc = "failed" => err \in {"RenderError", "RuntimeError"}
          /\ pc = "check" => (rows = ExpectedRows(report) /\ Len(seen) = Len(report))
    /\ (exists /\ ShapesIn(report, {"std", "lower", "capkey"})
               /\ ~ShapesIn(report, {"std", "lower"}))
       => \/ pc \in {"read", "scan"}
          \/ (pc = "failed" /\ err = "KeyError" /\ result = NoResult)

C7_Witness ==
    /\ pc = "failed"
    /\ err = "KeyError"
    /\ Len(report) = 2
    /\ report[1].shape = "lower"
    /\ report[2].shape = "capkey"
    /\ rows = <<ExpectedTuple(report[1])>>

\* A size marker ("Cache Size:", digits, "KB") starts at p.
MarkerAt(t, p) ==
    /\ LitAt(t, p, KwCacheSize)
    /\ LET a == SkipWs(t, p + Len(KwCacheSize))
           d == SkipDigits(t, a)
       IN  d > a /\ LitAt(t, SkipWs(t, d), KwKB)

\* C8: no match pairs the size of its marker with a record that lies
\* after a later marker, and when the loop has ended every block (a marker
\* followed by its own record) has given its tuple.
C8_NearestRecord ==
    /\ \A i \in 1..Len(seen) :
          \A p \in (seen[i].start + 1)..seen[i].at : ~MarkerAt(text, p)
    /\ pc = "check" => \A i \in 1..Len(report) :
          report[i].shape \in BlockShapes
          => \E j \in 1..Len(rows) : rows[j] = ExpectedTuple(report[i])

\* The pyplot calls of main, in the order of the script.
CallOrder == <<"figure", "plot", "plot", "plot", "plot", "decorate", "show">>

\* The stages of a run, in the order of the script.
Stages == <<"read", "scan", "check", "build", "figure", "plot", "decorate",
            "show", "shown", "done">>

StageOf(p) == CHOOSE k \in 1..Len(Stages) : Stages[k] = p

\* C9: a run goes through read, parse, render, show and exit in that order
\* and never back; a failure ends it on the spot (no step follows one);
\* after a failure of the read, of a record or of the empty-result check
\* no pyplot call has been made; and the first pyplot call comes only when
\* the whole text has been scanned, the rows are sorted and returned.
C9_RunOrder ==
    /\ [](/\ \A i \in 1..Len(calls) :
                i <= Len(CallOrder) /\ calls[i].fn = CallOrder[i]
          /\ calls # <<>> =>
                /\ exists
                /\ ~Search(text, pos).ok
                /\ AscendingBySize(rows)
                /\ ColumnLengths(result) = {Len(rows)}
          /\ err \in MalformedErrors \cup {"FileNotFoundError", "RuntimeError"} =>
                (pc = "failed" /\ calls = <<>> /\ result = NoResult)
          /\ pc \in {"shown", "done"} => Len(calls) = Len(CallOrder))
    /\ [][/\ pc \notin {"failed", "done"}
          /\ \/ pc' = "failed"
             \/ StageOf(pc') \in {StageOf(pc), StageOf(pc) + 1}]_vars

C9_Witness ==
    /\ pc = "done"
    /\ Len(calls) = Len(CallOrder)
    /\ Len(rows) = 2
    /\ Len(report) = 2

\* A label is the decimal digits of a number, without leading zeros,
\* followed by " KB"; LabelSize is that number.
LabelOK(l) ==
    /\ Len(l) >= 4
    /\ SubSeq(l, Len(l) - 2, Len(l)) = <<" ", "K", "B">>
    /\ \A k \in 1..(Len(l) - 3) : IsDigit(l[k])
    /\ (l[1] = "0" => Len(l) = 4)

LabelSize(l) == IntOf(SubSeq(l, 1, Len(l) - 3))

\* The returned lists read row by row.
Zip(res) ==
    [i \in 1..Len(res.labels) |->
        <<LabelSize(res.labels[i]), res.p50[i], res.p90[i], res.p95[i], res.p99[i]>>]

\* The scenario of the specification: 16 KB (10, 20, 25, 30), then 8 KB (5, 8, 9, 12).
Scenario == <<[shape |-> "std", size |-> 16, vals |-> 2],
              [shape |-> "std", size |-> 8, vals |-> 1]>>

ScenarioResult ==
    [labels |-> <<<<"8", " ", "K", "B">>, <<"1", "6", " ", "K", "B">>>>,
     p50 |-> <<5 * Scale, 10 * Scale>>,
     p90 |-> <<8 * Scale, 20 * Scale>>,
     p95 |-> <<9 * Scale, 25 * Scale>>,
     p99 |-> <<12 * Scale, 30 * Scale>>]

\* C10: what is returned is five lists of one length, one entry per
\* matched block; entry i of each list belongs to row i of the sorted rows
\* (the label is that row's size in decimal followed by " KB", the four
\* numbers are that row's median, p90, p95 and p99); for a report of blocks
\* with a rule line the entries are the blocks' own tuples, sorted by size
\* (blocks of one size in text order); and the scenario gives its lists.
C10_AlignedColumns ==
    Parsed =>
        /\ ColumnLengths(result) = {Len(seen)}
        /\ \A i \in 1..Len(result.labels) : LabelOK(result.labels[i])
        /\ Zip(result) = rows
        /\ ShapesIn(report, {"std", "lower", "extra", "noise"}) =>
              StableSortOf(ExpectedRows(report), Zip(result))
        /\ report = Scenario => result = ScenarioResult

C10_Witness ==
    /\ pc = "done"
    /\ report = Scenario
    /\ result = ScenarioResult

====
